---- MODULE Spec2Model ----
(***************************************************************************)
(* Verification model of the RagicDataBackup pipeline:                     *)
(*   ragic_client.py      RagicClient.fetch_data / fetch_since_local_paged *)
(*   data_transformer.py  DataTransformer.transform_data                   *)
(*   bigquery_uploader.py BigQueryUploader.upload_data and its strategies  *)
(*   erp_backup_main.py   ERPBackupManager.run_backup[_all_sheets]         *)
(*                                                                         *)
(* Time is counted in whole hours.  A Python datetime is a record          *)
(* [ok, aware, v]: ok = FALSE is None, aware tells whether tzinfo is set,  *)
(* v is the clock reading (UTC for the aware values built by _parse_dt).   *)
(***************************************************************************)
EXTENDS Integers, Sequences, FiniteSets, TLC

\* ------------------------------------------------------------------ bounds
MaxTime == 2
MaxRecords == 3
MaxLimit == 2
MaxPagesBound == 3
MaxRetriesBound == 1

\* ------------------------------------------------------- program constants
TaipeiOffsetHours == 8
DefaultNoNewDataPagesThreshold == 2

\* ------------------------------------------------------------ small helpers
Min(a, b) == IF a < b THEN a ELSE b

Range(s) == {s[i] : i \in 1..Len(s)}

SeqsUpTo(S, n) == UNION {[1..k -> S] : k \in 0..n}

\* ===========================================================================
\*  Source client (ragic_client.py)
\* ===========================================================================
VARIABLES
  source,        \* the sheet as the server serves it, ordered by _ragicId asc
  fmode,         \* "local" = fetch_since_local_paged, "where" = fetch_data
  since_dt,      \* lower bound handed to fetch_since_local_paged
  until_dt,      \* optional upper bound (NoneDt when not given)
  limit,         \* page size
  max_pages,     \* page ceiling; 0 stands for None (fetch_data only)
  threshold,     \* no_new_data_pages_threshold
  max_retries,   \* RagicClient.max_retries
  fpc,           \* "loop", "returned", "raised"
  pages,         \* local variable pages
  offset,        \* local variable offset
  collected,     \* collected / all_data: ids of the records gathered so far
  consec,        \* consecutive_no_new_data_pages
  retry,         \* fetch_data: index of the running retry
  retval,        \* "none" while running, then "list", "None" or "exception"
  scanned,       \* history: ids of the records of every page that was scanned
  servedPages,   \* history: number of pages whose response was received
  failure,       \* history: kind of the request failure that ended a page
  requests       \* history: HTTP requests sent for the page in progress

fetchVars == <<source, fmode, since_dt, until_dt, limit, max_pages, threshold,
               max_retries, fpc, pages, offset, collected, consec, retry,
               retval, scanned, servedPages, failure, requests>>

\* ---- datetime values
NoneDt == [ok |-> FALSE, aware |-> FALSE, v |-> 0]

AwareDt(t) == [ok |-> TRUE, aware |-> TRUE, v |-> t]

NaiveDt(t) == [ok |-> TRUE, aware |-> FALSE, v |-> t]

\* ---- raw field values of a source record
Absent == [k |-> "absent", v |-> 0]

Garbage == [k |-> "garbage", v |-> 0]

Blank == [k |-> "blank", v |-> 0]

LocalStr(t) == [k |-> "local", v |-> t]

IsoZ(t) == [k |-> "isoz", v |-> t]

Val(x) == [k |-> "val", v |-> x]

Times == 0..MaxTime

\* zoneless source strings whose Taipei wall clock denotes the UTC hours Times
LocalTimes == {TaipeiOffsetHours + t : t \in Times}

\* _parse_dt: empty or unparseable -> None; ISO string with zone -> UTC;
\* zoneless string -> read as Taipei time and converted to UTC.
parse_dt(raw) ==
  CASE raw.k = "blank"   -> NoneDt
    [] raw.k = "garbage" -> NoneDt
    [] raw.k = "isoz"    -> AwareDt(raw.v)
    [] raw.k = "local"   -> AwareDt(raw.v - TaipeiOffsetHours)
    [] OTHER             -> NoneDt

\* the candidate names, in the order of last_modified_field_names
FieldNames == <<"f1", "f2">>

\* lines 222-231: the first candidate field present in the record whose value
\* parses decides dt; a present but unparseable field is passed over.
RECURSIVE FirstParsed(_, _)
FirstParsed(rec, i) ==
  IF i > Len(FieldNames) THEN NoneDt
  ELSE LET raw == rec[FieldNames[i]]
       IN IF raw.k # "absent" /\ parse_dt(raw).ok
          THEN parse_dt(raw)
          ELSE FirstParsed(rec, i + 1)

RecDt(rec) == FirstParsed(rec, 1)

\* Python raises TypeError when an aware and a naive datetime are ordered.
Comparable(a, b) == a.aware = b.aware

\* lines 234-239 for one record: does the comparison raise TypeError?
ScanRaises(rec) ==
  LET dt == RecDt(rec)
  IN /\ dt.ok
     /\ \/ until_dt.ok /\ ~Comparable(dt, until_dt)
        \/ /\ ~(until_dt.ok /\ dt.v > until_dt.v)
           /\ ~Comparable(dt, since_dt)

\* a filter without the upper bound
ScanKeeps_no_upper_bound(rec) ==
  LET dt == RecDt(rec)
  IN /\ dt.ok
     /\ dt.v >= since_dt.v

\* lines 234-239 for one record, when nothing raises: is the record appended?
ScanKeeps(rec) ==
  LET dt == RecDt(rec)
  IN /\ dt.ok
     /\ ~(until_dt.ok /\ dt.v > until_dt.v)
     /\ dt.v >= since_dt.v

\* ids of the page the server returns for (limit, offset)
PageIds(off) ==
  IF off >= Len(source) THEN {} ELSE (off + 1)..Min(off + limit, Len(source))

RECURSIVE KeptIn(_, _)
KeptIn(lo, hi) ==
  IF lo > hi THEN <<>>
  ELSE (IF ScanKeeps(source[lo]) THEN <<lo>> ELSE <<>>) \o KeptIn(lo + 1, hi)

\* outcomes of one HTTP GET (session.get + raise_for_status + json)
Outcomes == {"ok", "read_timeout", "connect_timeout", "conn_error",
             "http_401", "http_403", "http_404", "http_500"}

Transient == {"read_timeout", "connect_timeout", "conn_error"}

AuthOrNotFound == {"http_401", "http_403", "http_404"}

FailKind(o) ==
  IF o \in Transient THEN "transient"
  ELSE IF o \in AuthOrNotFound THEN "auth"
  ELSE IF o = "ok" THEN "none" ELSE "http"

\* a raw record: the fields of the Ragic record that the pipeline looks at
\*   rid = _ragicId, oid = 訂單編號, f1 = 最後修改日期, f2 = 最後修改時間, qty = 數量
RawRec(rid, oid, f1, f2, qty) ==
  [kind |-> "dict", rid |-> rid, oid |-> oid, f1 |-> f1, f2 |-> f2, qty |-> qty]

RecordKinds ==
  {RawRec(Val(1), Val(1), a, Absent, Absent) :
     a \in {Absent, Garbage} \cup {LocalStr(t) : t \in LocalTimes}}
  \cup {RawRec(Val(1), Val(1), Garbage, LocalStr(TaipeiOffsetHours + 1), Absent),
        RawRec(Val(1), Val(1), Absent, IsoZ(1), Absent)}

\* since_dt: an aware UTC value (a direct caller), or the naive value that
\* erp_backup_main.py builds with strptime (UTC or Taipei reading of hour 1).
SinceChoices == {AwareDt(1), NaiveDt(1), NaiveDt(TaipeiOffsetHours + 1)}

\* until_dt: not given, or an upper bound that does not lie before since_dt
UntilChoices == {NoneDt, AwareDt(1), NaiveDt(1)}

FetchStart ==
  /\ fpc = "loop"
  /\ pages = 0
  /\ offset = 0
  /\ collected = <<>>
  /\ consec = 0
  /\ retry = 0
  /\ retval = "none"
  /\ scanned = {}
  /\ servedPages = 0
  /\ failure = "none"
  /\ requests = 0

InitLocal ==
  /\ fmode = "local"
  /\ source \in SeqsUpTo(RecordKinds, MaxRecords)
  /\ since_dt \in SinceChoices
  /\ until_dt \in UntilChoices
  /\ limit \in 1..MaxLimit
  /\ max_pages \in 1..MaxPagesBound
  /\ threshold \in 1..DefaultNoNewDataPagesThreshold
  /\ max_retries = MaxRetriesBound
  /\ FetchStart

InitWhere ==
  /\ fmode = "where"
  /\ source \in SeqsUpTo({RawRec(Val(1), Val(1), LocalStr(TaipeiOffsetHours), Absent, Absent)}, MaxRecords)
  /\ since_dt = NaiveDt(0)
  /\ until_dt = NoneDt
  /\ limit \in 1..MaxLimit
  /\ max_pages \in 0..MaxPagesBound
  /\ threshold = DefaultNoNewDataPagesThreshold
  /\ max_retries \in 0..MaxRetriesBound
  /\ FetchStart

FetchInputsUnchanged ==
  UNCHANGED <<source, fmode, since_dt, until_dt, limit, max_pages, threshold, max_retries>>

\* a counter that the pages with a retained record leave as it is
next_no_new_data_pages_no_reset(count, page_new_data_count) ==
  IF page_new_data_count = 0 THEN count + 1 ELSE count

\* lines 247-251: consecutive_no_new_data_pages after a scanned page
next_no_new_data_pages(count, page_new_data_count) ==
  IF page_new_data_count = 0 THEN count + 1 ELSE 0

\* ---- fetch_since_local_paged, one iteration of `while pages < max_pages`
\* o1 is the outcome of the request, o2 the outcome of the single quick retry
\* that follows a ReadTimeout.
LocalPageBody(o1, o2) ==
  LET got == (o1 = "ok") \/ (o1 = "read_timeout" /\ o2 = "ok")
      ids == PageIds(offset)
      lo == offset + 1
      hi == Min(offset + limit, Len(source))
      raises == \E i \in ids : ScanRaises(source[i])
      kept == KeptIn(lo, hi)
      anyParsed == \E i \in ids : RecDt(source[i]).ok
      consec2 == next_no_new_data_pages(consec, Len(kept))
      stop == \/ consec2 >= threshold
              \/ Cardinality(ids) < limit
              \/ ~anyParsed
  IN /\ pages' = pages + 1
     /\ requests' = IF o1 = "read_timeout" THEN 2 ELSE 1
     /\ IF ~got
        THEN \* lines 203-208: warning, break, return collected
             /\ failure' = FailKind(IF o1 = "read_timeout" THEN o2 ELSE o1)
             /\ fpc' = "returned"
             /\ retval' = "list"
             /\ UNCHANGED <<offset, collected, consec, scanned, servedPages>>
        ELSE /\ servedPages' = servedPages + 1
             /\ failure' = "none"
             /\ IF ids = {}
                THEN \* lines 211-213
                     /\ fpc' = "returned"
                     /\ retval' = "list"
                     /\ UNCHANGED <<offset, collected, consec, scanned>>
                ELSE /\ scanned' = scanned \cup ids
                     /\ IF raises
                        THEN \* TypeError leaves the function: nothing is returned
                             /\ fpc' = "raised"
                             /\ retval' = "exception"
                             /\ UNCHANGED <<offset, collected, consec>>
                        ELSE /\ collected' = collected \o kept
                             /\ consec' = consec2
                             /\ IF stop
                                THEN /\ fpc' = "returned"
                                     /\ retval' = "list"
                                     /\ UNCHANGED offset
                                ELSE /\ offset' = offset + limit
                                     /\ UNCHANGED <<fpc, retval>>

\* a loop that goes on past the page ceiling
LocalPage_unbounded ==
  /\ fmode = "local"
  /\ fpc = "loop"
  /\ \E o1 \in Outcomes :
       \E o2 \in (IF o1 = "read_timeout" THEN Outcomes ELSE {"ok"}) :
         LocalPageBody(o1, o2)
  /\ UNCHANGED retry
  /\ FetchInputsUnchanged

LocalPage ==
  /\ fmode = "local"
  /\ fpc = "loop"
  /\ pages < max_pages
  /\ \E o1 \in Outcomes :
       \E o2 \in (IF o1 = "read_timeout" THEN Outcomes ELSE {"ok"}) :
         LocalPageBody(o1, o2)
  /\ UNCHANGED retry
  /\ FetchInputsUnchanged

\* the loop condition fails: line 270-271, return collected
LocalCeiling ==
  /\ fmode = "local"
  /\ fpc = "loop"
  /\ pages >= max_pages
  /\ fpc' = "returned"
  /\ retval' = "list"
  /\ UNCHANGED <<pages, offset, collected, consec, retry, scanned, servedPages,
                 failure, requests>>
  /\ FetchInputsUnchanged

\* ---- fetch_data, the ceiling test at the top of `while True` (lines 53-54):
\* break leaves the loop and the function ends without a return statement.
WhereCeiling ==
  /\ fmode = "where"
  /\ fpc = "loop"
  /\ retry = 0
  /\ max_pages # 0
  /\ pages >= max_pages
  /\ fpc' = "returned"
  /\ retval' = "None"
  /\ UNCHANGED <<pages, offset, collected, consec, retry, scanned, servedPages,
                 failure, requests>>
  /\ FetchInputsUnchanged

\* ---- fetch_data, one pass of `for retry in range(max_retries + 1)`
WhereAttemptBody(o) ==
  LET ids == PageIds(offset)
      lo == offset + 1
      hi == Min(offset + limit, Len(source))
  IN /\ requests' = requests + 1
     /\ UNCHANGED consec
     /\ CASE o = "ok" ->
               /\ servedPages' = servedPages + 1
               /\ failure' = "none"
               /\ IF ids = {}
                  THEN \* lines 73-74
                       /\ fpc' = "returned"
                       /\ retval' = "list"
                       /\ UNCHANGED <<pages, offset, collected, retry, scanned>>
                  ELSE /\ collected' = collected \o [k \in 1..(hi - lo + 1) |-> lo + k - 1]
                       /\ scanned' = scanned \cup ids
                       /\ IF Cardinality(ids) < limit
                          THEN \* lines 79-80
                               /\ fpc' = "returned"
                               /\ retval' = "list"
                               /\ UNCHANGED <<pages, offset, retry>>
                          ELSE \* lines 82-85
                               /\ pages' = pages + 1
                               /\ offset' = offset + limit
                               /\ retry' = 0
                               /\ UNCHANGED <<fpc, retval>>
          [] o \in Transient ->
               \* lines 87-90
               /\ UNCHANGED <<pages, offset, collected, scanned, servedPages>>
               /\ IF retry = max_retries
                  THEN /\ fpc' = "raised"
                       /\ retval' = "exception"
                       /\ failure' = "transient"
                       /\ UNCHANGED retry
                  ELSE /\ retry' = retry + 1
                       /\ UNCHANGED <<fpc, retval, failure>>
          [] OTHER ->
               \* lines 91-96: every HTTPError raises at once
               /\ fpc' = "raised"
               /\ retval' = "exception"
               /\ failure' = FailKind(o)
               /\ UNCHANGED <<pages, offset, collected, retry, scanned, servedPages>>

WhereAttempt ==
  /\ fmode = "where"
  /\ fpc = "loop"
  /\ ~(retry = 0 /\ max_pages # 0 /\ pages >= max_pages)
  /\ \E o \in Outcomes : WhereAttemptBody(o)
  /\ FetchInputsUnchanged

\* ---- claims about the source client

\* the clock reading of a record's parsed modification time equals the one of
\* the watermark (line 233 reads since_dt as a UTC value)
AtWatermark(rec) == RecDt(rec).ok /\ RecDt(rec).v = since_dt.v

\* C1: once fetch_since_local_paged has ended, every record of a scanned page
\* whose parsed modification time equals the watermark since_dt is in the list
\* the call returned (inclusive lower bound, never excluded).
C1_BoundaryRecordRetained ==
  (fmode = "local" /\ fpc # "loop") =>
    \A i \in scanned :
      AtWatermark(source[i]) => (retval = "list" /\ i \in Range(collected))

\* C5: a page request that failed with a transient transport error is retried
\* a bounded number of times (max_retries in fetch_data, once in
\* fetch_since_local_paged), and a fetch whose page request finally failed
\* that way ends by raising, never by returning, in both retrieval modes.
C5_TransientFailureRaises ==
  /\ requests <= (IF fmode = "where" THEN max_retries + 1 ELSE 2)
  /\ (failure = "transient") => (fpc = "raised" /\ retval = "exception")

\* C6: an HTTP 401, 403 or 404 answer makes the fetch raise (the raising state
\* is final, so no further request follows), in both retrieval modes.
C6_AuthFailureRaises ==
  (failure = "auth") => (fpc = "raised" /\ retval = "exception")

\* page p (0-based) of the source is full and holds a record whose modification
\* time parses from a candidate field
FullParsedPage(p) ==
  /\ (p + 1) * limit <= Len(source)
  /\ \E i \in (p * limit + 1)..((p + 1) * limit) : RecDt(source[i]).ok

\* fetch_since_local_paged never counts more than max_pages pages, and it is
\* still in its loop only when every page so far was full and parseable
LocalScanBounded ==
  fmode = "local" =>
    /\ pages <= max_pages
    /\ servedPages <= pages
    /\ fpc = "loop" => \A p \in 0..(pages - 1) : FullParsedPage(p)

\* C30: the list fetch_since_local_paged returns holds only records of the
\* pages it fetched, each at most once and in the order of the pages, and
\* every record of it has a parseable modification time t with since_dt <= t
\* and, when until_dt is given, t <= until_dt.
C30_ReturnedWithinWindow ==
  (fmode = "local" /\ retval = "list") =>
    /\ \A j \in 1..Len(collected) :
         /\ collected[j] \in scanned
         /\ RecDt(source[collected[j]]).ok
         /\ Comparable(RecDt(source[collected[j]]), since_dt)
         /\ since_dt.v <= RecDt(source[collected[j]]).v
         /\ until_dt.ok =>
              /\ Comparable(RecDt(source[collected[j]]), until_dt)
              /\ RecDt(source[collected[j]]).v <= until_dt.v
    /\ \A j \in 1..Len(collected) : \A k \in 1..Len(collected) :
         j < k => collected[j] < collected[k]

\* a returned list with records of two pages, from a scan that also met a
\* record after until_dt, a record before since_dt and one without a time
C30_TwoPagesFiltered ==
  /\ fmode = "local"
  /\ retval = "list"
  /\ until_dt.ok
  /\ limit = 1
  /\ collected = <<1, 3>>
  /\ \/ ~RecDt(source[2]).ok
     \/ RecDt(source[2]).v > until_dt.v
     \/ RecDt(source[2]).v < since_dt.v

\* pages of the call that were scanned to their end
ScannedPages == {p \in 1..MaxRecords : PageIds((p - 1) * limit) # {}
                                        /\ PageIds((p - 1) * limit) \subseteq scanned}

\* records of page p that the call retained
KeptOnPage(p) ==
  Cardinality({i \in 1..Len(collected) : collected[i] \in PageIds((p - 1) * limit)})

\* length of the run of pages without a retained record that ends the scan
TrailingZeroPages ==
  LET n == Cardinality(ScannedPages)
  IN CHOOSE c \in 0..n :
       /\ \A p \in (n - c + 1)..n : KeptOnPage(p) = 0
       /\ c = n \/ KeptOnPage(n - c) # 0

\* the call left its loop with break after a page that was served, full and
\* had a parseable modification time
BrokeAfterFullParsedPage ==
  LET n == Cardinality(ScannedPages)
  IN /\ fpc = "returned"
     /\ failure = "none"
     /\ n >= 1
     /\ servedPages = n
     /\ offset = (n - 1) * limit
     /\ FullParsedPage(n - 1)

\* C24: in fetch_since_local_paged the early-exit counter is the number of
\* consecutive scanned pages, up to the last one, that retained no record (a
\* page that retains a record sets it to 0); the scan goes on while the
\* counter is below no_new_data_pages_threshold and stops when it reaches it;
\* a scan that breaks after a full page with a parseable time does so with
\* the counter at the threshold.
C24_CounterCountsTrailingZeroPages ==
  (fmode = "local" /\ fpc # "raised") =>
    /\ consec = TrailingZeroPages
    /\ consec <= threshold
    /\ (fpc = "loop") => consec < threshold
    /\ BrokeAfterFullParsedPage => consec = threshold

\* a page that retained a record came after a page that retained none: the
\* counter went back to 0, and the page without a retained record that
\* followed did not stop the scan
C24_ResetByRetainingPage ==
  /\ fmode = "local"
  /\ fpc = "returned"
  /\ threshold = DefaultNoNewDataPagesThreshold
  /\ Cardinality(ScannedPages) = 3
  /\ KeptOnPage(1) = 0
  /\ KeptOnPage(2) > 0
  /\ KeptOnPage(3) = 0
  /\ consec = 1

\* C20: fetch_since_local_paged scans at most max_pages pages, scans no page
\* after the first one that is empty, short or without a parseable
\* modification time, and always terminates.
C20_LocalFetchTerminates ==
  /\ []LocalScanBounded
  /\ <>(fpc # "loop")

C20_StoppedAtUnparseablePage ==
  /\ fmode = "local"
  /\ fpc = "returned"
  /\ failure = "none"
  /\ pages = 2
  /\ pages < max_pages
  /\ consec < threshold
  /\ 2 * limit < Len(source)
  /\ \A i \in (limit + 1)..(2 * limit) : ~RecDt(source[i]).ok

\* C19: when fetch_data ends without raising, whichever condition ended the
\* paging (short page, empty page or the page ceiling), it returns a list, and
\* the list holds the records of every page it fetched.
C19_WhereReturnsAllFetched ==
  (fmode = "where" /\ fpc = "returned") =>
    /\ retval = "list"
    /\ Range(collected) = scanned
    /\ Len(collected) = Cardinality(scanned)

\* ===========================================================================
\*  Record transformer (data_transformer.py)
\* ===========================================================================
VARIABLES
  sheet_code,       \* DataTransformer.sheet_code
  invalid_records,  \* DataTransformer.invalid_records: <<index, raw item>> entries
  failure_counts,   \* DataTransformer.failure_counts, per canonical field
  t_input,          \* argument of the last transform_data call
  t_output,         \* list it returned
  t_status,         \* "idle", "returned" or "raised"
  t_calls           \* number of transform_data calls made on this transformer

xformVars == <<sheet_code, invalid_records, failure_counts, t_input, t_output,
               t_status, t_calls>>

\* SQL NULL / Python None / key not present in the output record
NULL == -1

NonDict == [kind |-> "nondict", rid |-> Absent, oid |-> Absent, f1 |-> Absent,
            f2 |-> Absent, qty |-> Absent]

\* a typed record, restricted to the columns the model follows:
\*   rid = _ragicId, oid = order_id, lmd = last_modified_date,
\*   upd = updated_at, crt = created_at, qty = quantity, sheet = sheet_code
TypedRec(rid, oid, lmd, qty, sheet) ==
  [rid |-> rid, oid |-> oid, lmd |-> lmd, upd |-> NULL, crt |-> NULL,
   qty |-> qty, sheet |-> sheet]

\* line 490: value is None or a blank string
IsEmptyValue(raw) == raw.k = "blank"

\* _normalize_timestamp: the clock reading is kept as written, without any
\* zone conversion; an unparseable string raises ValueError
TimestampFails(raw) == raw.k = "garbage"

normalize_timestamp(raw) == IF raw.k \in {"local", "isoz"} THEN raw.v ELSE NULL

\* int(float(cleaned_value)) raises ValueError on an unparseable string
IntFails(raw) == raw.k = "garbage"

\* a numeral that float() reads as infinity ("inf", "Infinity", "1e999"):
\* int(float(cleaned_value)) raises OverflowError, which is neither ValueError
\* nor TypeError
Huge == [k |-> "inf", v |-> 0]

IntOverflows(raw) == raw.k = "inf"

\* lines 489-518 for a timestamp field: None for an empty value, the normalized
\* value, or the default None of _get_default_value after a failed conversion
ConvertTimestamp(raw) ==
  IF IsEmptyValue(raw) \/ TimestampFails(raw) THEN NULL ELSE normalize_timestamp(raw)

\* lines 489-518 for an integer field: None for an empty value, default 0
\* after a failed conversion
ConvertInteger(raw) ==
  IF IsEmptyValue(raw) THEN NULL
  ELSE IF IntFails(raw) THEN 0 ELSE raw.v

\* lines 489-501 for a string field
ConvertString(raw) == IF IsEmptyValue(raw) THEN NULL ELSE raw.v

\* both 最後修改日期 (f1) and 最後修改時間 (f2) map to last_modified_date
\* (FIELD_MAPPING_CORE); the field that comes later in the record overwrites.
LastModifiedOf(item) ==
  IF item.f2.k # "absent" THEN ConvertTimestamp(item.f2)
  ELSE IF item.f1.k # "absent" THEN ConvertTimestamp(item.f1)
  ELSE NULL

\* _validate_required_fields on the converted record
validate_required_fields(rid) == rid # NULL

\* line 507 raises past the except-clause of line 518: _transform_single_record
\* ends with the exception, which transform_data catches at line 420
RecordRaises(item) == item.kind = "dict" /\ IntOverflows(item.qty)

\* the messages of the errors list, in the order of the fields of the record
ErrorsOf(item) ==
  (IF item.rid.k = "blank" THEN <<"empty:_ragicId">> ELSE <<>>)
  \o (IF TimestampFails(item.f1) THEN <<"type:last_modified_date">> ELSE <<>>)
  \o (IF TimestampFails(item.f2) THEN <<"type:last_modified_date">> ELSE <<>>)
  \o (IF IntFails(item.qty) THEN <<"type:quantity">> ELSE <<>>)
  \o (IF item.rid.k \in {"absent", "blank"} THEN <<"missing:_ragicId">> ELSE <<>>)

\* _transform_single_record: the record is invalid when _ragicId is empty
\* (line 491-493) or missing after the conversion (line 521-523)
ItemIsValid(item) ==
  /\ item.kind = "dict"
  /\ item.rid.k # "absent"
  /\ validate_required_fields(ConvertString(item.rid))

transform_single_record(item, sheet) ==
  TypedRec(IF item.rid.k = "absent" THEN NULL ELSE ConvertString(item.rid),
           IF item.oid.k = "absent" THEN NULL ELSE ConvertString(item.oid),
           LastModifiedOf(item),
           IF item.qty.k = "absent" THEN NULL ELSE ConvertInteger(item.qty),
           sheet)

\* number of conversions of the item that end in the except branch (line 518)
FailuresOf(item, key) ==
  IF item.kind # "dict" THEN 0
  ELSE CASE key = "last_modified_date" ->
              (IF TimestampFails(item.f1) THEN 1 ELSE 0)
              + (IF TimestampFails(item.f2) THEN 1 ELSE 0)
         [] key = "quantity" -> (IF IntFails(item.qty) THEN 1 ELSE 0)
         [] key = "_ragicId_missing" ->
              (IF item.rid.k \in {"absent", "blank"} /\ ~RecordRaises(item)
               THEN 1 ELSE 0)
         [] OTHER -> 0

FailureKeys == {"last_modified_date", "quantity", "_ragicId_missing"}

RECURSIVE SumFailures(_, _, _)
SumFailures(data, key, i) ==
  IF i > Len(data) THEN 0
  ELSE FailuresOf(data[i], key) + SumFailures(data, key, i + 1)

\* lines 415-426: the records of the input that are returned, in input order
RECURSIVE TransformedList(_, _, _)
TransformedList(data, sheet, i) ==
  IF i > Len(data) THEN <<>>
  ELSE (IF ItemIsValid(data[i]) /\ ~RecordRaises(data[i])
        THEN <<transform_single_record(data[i], sheet)>> ELSE <<>>)
       \o TransformedList(data, sheet, i + 1)

\* lines 525-531: entries appended to invalid_records (0-based index, errors,
\* raw item); a non-dict item returns None at line 451 and is not appended,
\* nor is a record whose conversion raised past line 518
RECURSIVE InvalidEntries(_, _)
InvalidEntries(data, i) ==
  IF i > Len(data) THEN <<>>
  ELSE (IF data[i].kind = "dict" /\ ~ItemIsValid(data[i]) /\ ~RecordRaises(data[i])
        THEN <<[index |-> i - 1, errors |-> ErrorsOf(data[i]), raw |-> data[i]]>>
        ELSE <<>>)
       \o InvalidEntries(data, i + 1)

\* line 404-405: sample.keys() on a first item that is not a dict raises
\* AttributeError outside the per-record try
TransformRaises(data) == Len(data) > 0 /\ data[1].kind # "dict"

transform_data(data) ==
  IF Len(data) = 0
  THEN /\ t_output' = <<>>
       /\ t_status' = "returned"
       /\ UNCHANGED <<invalid_records, failure_counts>>
  ELSE IF TransformRaises(data)
  THEN /\ t_output' = <<>>
       /\ t_status' = "raised"
       /\ UNCHANGED <<invalid_records, failure_counts>>
  ELSE /\ t_output' = TransformedList(data, sheet_code, 1)
       /\ t_status' = "returned"
       /\ invalid_records' = invalid_records \o InvalidEntries(data, 1)
       /\ failure_counts' =
            [k \in FailureKeys |-> failure_counts[k] + SumFailures(data, k, 1)]

MaxBatch == 2
MaxCalls == 2

ItemKinds ==
  {RawRec(r, o, f, Absent, Absent) :
     r \in {Absent, Blank, Val(1)},
     o \in {Absent, Blank, Val(1)},
     f \in {Garbage, LocalStr(TaipeiOffsetHours)}}
  \cup {RawRec(Val(1), Val(1), LocalStr(TaipeiOffsetHours), Absent, Garbage),
        RawRec(Val(1), Val(1), LocalStr(TaipeiOffsetHours), Absent, Huge),
        RawRec(Absent, Val(1), LocalStr(TaipeiOffsetHours), Absent, Huge),
        NonDict}

SheetCodes == {"10", "99"}

TransformerInit ==
  /\ invalid_records = <<>>
  /\ failure_counts = [k \in FailureKeys |-> 0]
  /\ t_input = <<>>
  /\ t_output = <<>>
  /\ t_status = "idle"
  /\ t_calls = 0

InitTransform ==
  /\ sheet_code \in SheetCodes
  /\ TransformerInit

TransformData ==
  /\ t_calls < MaxCalls
  /\ \E data \in SeqsUpTo(ItemKinds, MaxBatch) :
       /\ t_input' = data
       /\ transform_data(data)
  /\ t_calls' = t_calls + 1
  /\ UNCHANGED sheet_code

\* ---- claims about the transformer

\* C4: every record of a list returned by transform_data carries a non-null,
\* non-empty business identifier, i.e. the order_id on which the MERGE of
\* _upload_with_merge matches (ON T.order_id = S.order_id).
C4_BusinessKeyPresent ==
  \A i \in 1..Len(t_output) : t_output[i].oid # NULL

\* the record is a dict whose _ragicId is absent, null or blank
LacksId(item) == item.kind = "dict" /\ item.rid.k \in {"absent", "blank"}

HasId(item) == item.kind = "dict" /\ item.rid.k = "val"

\* C15: when transform_data returns, no returned record is without _ragicId,
\* no more records are returned than the input has records with a _ragicId, and
\* every input record whose _ragicId is absent, null or blank has an entry in
\* invalid_records with its index, its error strings and the original record.
C15_MissingIdReported ==
  t_status = "returned" =>
    /\ \A j \in 1..Len(t_output) : t_output[j].rid # NULL
    /\ Len(t_output) <= Cardinality({i \in 1..Len(t_input) : HasId(t_input[i])})
    /\ \A i \in 1..Len(t_input) :
         LacksId(t_input[i]) =>
           \E e \in 1..Len(invalid_records) :
             /\ invalid_records[e].index = i - 1
             /\ invalid_records[e].raw = t_input[i]
             /\ invalid_records[e].errors # <<>>

\* the value of the integer field cannot be read as an integer
IntUnparseable(item) ==
  item.kind = "dict" /\ (IntFails(item.qty) \/ IntOverflows(item.qty))

\* C16: on the first transform_data call of a transformer, a list of dicts never
\* makes the call raise; every record with a _ragicId is returned, those whose
\* integer field cannot be parsed with the default 0 in it; and the failure
\* counter of the field counts the unparseable values.
C16_CoercionFailureDefaults ==
  t_calls = 1 =>
    /\ (\A i \in 1..Len(t_input) : t_input[i].kind = "dict") => t_status = "returned"
    /\ t_status = "returned" =>
         /\ Len(t_output) = Cardinality({i \in 1..Len(t_input) : HasId(t_input[i])})
         /\ Cardinality({j \in 1..Len(t_output) : t_output[j].qty = 0})
              >= Cardinality({i \in 1..Len(t_input) :
                                HasId(t_input[i]) /\ IntUnparseable(t_input[i])})
         /\ failure_counts["quantity"]
              = Cardinality({i \in 1..Len(t_input) : IntUnparseable(t_input[i])})

\* C28: the first transform_data call of a transformer accounts for every
\* item of its input, items that are not records and records whose conversion
\* raises included: it returns, and the number of returned records plus the
\* number of entries added to invalid_records is the length of the input.
C28_EveryRecordAccounted ==
  t_calls = 1 =>
    /\ t_status = "returned"
    /\ Len(t_output) + Len(invalid_records) = Len(t_input)

\* get_invalid_records, lines 731-735: a copy of self.invalid_records
get_invalid_records == invalid_records

\* C26: after a transform_data call, get_invalid_records returns entries of
\* that call only: every entry holds the index of a record of the call's input
\* together with that record, and no index is reported twice.
C26_InvalidRecordsOfLastCall ==
  t_calls >= 1 =>
    /\ \A e \in 1..Len(get_invalid_records) :
         /\ get_invalid_records[e].index < Len(t_input)
         /\ get_invalid_records[e].raw = t_input[get_invalid_records[e].index + 1]
    /\ \A e \in 1..Len(get_invalid_records) : \A f \in 1..Len(get_invalid_records) :
         get_invalid_records[e].index = get_invalid_records[f].index => e = f

\* ===========================================================================
\*  Warehouse uploader (bigquery_uploader.py)
\* ===========================================================================
VARIABLES
  table,           \* rows of the destination table
  staging,         \* rows of the long-lived staging table, with their batch_id
  u_data,          \* upload_data argument data
  u_use_merge,     \* upload_data argument use_merge
  u_mode,          \* upload_data argument upload_mode
  u_threshold,     \* upload_data argument batch_threshold
  u_result,        \* what the last upload_data call returned, or that it raised
  selected,        \* history: strategy method the last call dispatched to
  mergeAttempts,   \* history: _upload_with_merge runs in the last call
  insertAttempts,  \* history: _upload_with_insert runs in the last call
  tempCreated,     \* history: temporary tables created in the last call
  tempDeletes,     \* history: delete_table attempts in the last call
  tempLeft,        \* temporary tables that exist in the dataset
  mergeFailed,     \* history: a step of the merge raised in the last call
  insertFailed,    \* history: the append load raised in the last call
  uploads,         \* number of upload_data calls made
  methods,         \* history: outcome of every call (method, or "raised")
  table1           \* history: destination rows after the first call

uploadVars == <<table, staging, u_data, u_use_merge, u_mode, u_threshold,
                u_result, selected, mergeAttempts, insertAttempts, tempCreated,
                tempDeletes, tempLeft, mergeFailed, insertFailed, uploads,
                methods, table1>>

\* _project_records_to_schema: only schema columns are loaded; _ragicId is not
\* a column of BIGQUERY_SCHEMA
project_record(r) ==
  [oid |-> r.oid, lmd |-> r.lmd, upd |-> r.upd, crt |-> r.crt, qty |-> r.qty,
   sheet |-> r.sheet]

ProjectAll(data) == [i \in 1..Len(data) |-> project_record(data[i])]

\* mode = (upload_mode or "auto").lower()
NormalizeMode(m) ==
  CASE m = "" -> "auto"
    [] m = "AUTO" -> "auto"
    [] m = "DIRECT" -> "direct"
    [] m = "STAGING_SP" -> "staging_sp"
    [] OTHER -> m

\* the threshold comparison taken inclusively
UseStaging_inclusive(m, n, t) ==
  NormalizeMode(m) = "staging_sp" \/ (NormalizeMode(m) = "auto" /\ n >= t)

\* line 86: the staged load + stored procedure branch is taken
UseStaging(m, n, t) ==
  NormalizeMode(m) = "staging_sp" \/ (NormalizeMode(m) = "auto" /\ n > t)

\* ---- MERGE statement of _upload_with_merge (lines 416-434)
BatchKeys(rows) == {rows[i].oid : i \in 1..Len(rows)}

\* ROW_NUMBER() OVER (PARTITION BY order_id ORDER BY updated_at DESC NULLS LAST)
\* = 1: a row of the partition with the greatest updated_at (NULL is the
\* smallest); among equal rows the engine is free to number any one first.
FirstOfPartition(rows, k) ==
  {i \in 1..Len(rows) :
     /\ rows[i].oid = k
     /\ \A j \in 1..Len(rows) : rows[j].oid = k => rows[j].upd <= rows[i].upd}

DedupChoices(rows) ==
  {c \in [BatchKeys(rows) -> 1..Len(rows)] :
     \A k \in BatchKeys(rows) : c[k] \in FirstOfPartition(rows, k)}

\* ON T.order_id = S.order_id: NULL equals nothing
Matched(T, k) == k # NULL /\ \E j \in 1..Len(T) : T[j].oid = k

RECURSIVE InsertedRows(_, _, _, _)
InsertedRows(T, rows, c, i) ==
  IF i > Len(rows) THEN <<>>
  ELSE (IF c[rows[i].oid] = i /\ ~Matched(T, rows[i].oid)
        THEN <<rows[i]>> ELSE <<>>)
       \o InsertedRows(T, rows, c, i + 1)

\* WHEN MATCHED THEN UPDATE SET every column but order_id;
\* WHEN NOT MATCHED THEN INSERT
MergeInto(T, rows, c) ==
  [j \in 1..Len(T) |->
     IF T[j].oid # NULL /\ T[j].oid \in BatchKeys(rows)
     THEN rows[c[T[j].oid]] ELSE T[j]]
  \o InsertedRows(T, rows, c, 1)

MergeResults(T, rows) == {MergeInto(T, rows, c) : c \in DedupChoices(rows)}

\* load_table_from_json with WRITE_APPEND
AppendRows(T, rows) == T \o rows

NoResult == [outcome |-> "none", status |-> "", method |-> "", processed |-> 0]

Returned(status, method, n) ==
  [outcome |-> "returned", status |-> status, method |-> method, processed |-> n]

Raised == [outcome |-> "raised", status |-> "", method |-> "", processed |-> 0]

MergeFailPoints == {"none", "create_temp", "load_temp", "merge_query"}

StagingFailPoints == {"none", "ensure", "load", "call_sp"}

\* a cleanup that runs only when the load and the MERGE went through
delete_temp_table_on_success(created, mfailed) ==
  IF mfailed THEN 0 ELSE created

\* finally-clause of lines 449-454: the number of delete_table calls made for
\* `created` temporary tables; the clause is entered once create_table has
\* returned, whether or not the guarded block raised
delete_temp_table(created, mfailed) == created

\* what one strategy method did: resulting rows, result, and how often each
\* load or statement was run
Done(tbl, res, merges, inserts, created, mfailed, ifailed) ==
  [tbl |-> tbl, res |-> res, merges |-> merges, inserts |-> inserts,
   created |-> created, deletes |-> delete_temp_table(created, mfailed),
   mfailed |-> mfailed, ifailed |-> ifailed]

\* _upload_with_insert (lines 462-512); ifail: the load job raises or reports
\* errors
upload_with_insert(T, data, is_fallback, ifail) ==
  IF ifail
  THEN Done(T, Raised, 0, 1, 0, FALSE, TRUE)
  ELSE Done(AppendRows(T, ProjectAll(data)),
            Returned("success",
                     IF is_fallback THEN "insert_fallback" ELSE "insert",
                     Len(data)),
            0, 1, 0, FALSE, FALSE)

\* a merge that raises its own failure instead of falling back
upload_with_merge_no_fallback(T, data, mfail, ifail, merged) ==
  IF mfail = "none"
  THEN Done(merged, Returned("success", "merge", Len(data)), 1, 0, 1, FALSE, FALSE)
  ELSE Done(T, Raised, 1, 0, IF mfail = "create_temp" THEN 0 ELSE 1, TRUE, FALSE)

\* _upload_with_merge (lines 351-460); mfail: the step of the merge that raises;
\* merged: the destination rows the MERGE statement leaves
upload_with_merge(T, data, mfail, ifail, merged) ==
  LET fb == upload_with_insert(T, data, TRUE, ifail)
      created == IF mfail = "create_temp" THEN 0 ELSE 1
  IN IF mfail = "none"
     THEN Done(merged, Returned("success", "merge", Len(data)), 1, 0, 1, FALSE, FALSE)
     ELSE Done(fb.tbl, fb.res, 1, fb.inserts, created, TRUE, fb.ifailed)

\* the effect of CALL sp_upsert_ragic_data(batch_id) on the destination
StoredProcedureEffect(T, rows) == MergeResults(T, rows)

NothingRun(res) == Done(table, res, 0, 0, 0, FALSE, FALSE)

\* the bookkeeping of one call
Record(d, strategy, deleteFails) ==
  /\ table' = d.tbl
  /\ u_result' = d.res
  /\ selected' = strategy
  /\ mergeAttempts' = d.merges
  /\ insertAttempts' = d.inserts
  /\ tempCreated' = d.created
  /\ tempDeletes' = d.deletes
  /\ tempLeft' = IF d.created = 1 /\ deleteFails THEN tempLeft + 1 ELSE tempLeft
  /\ mergeFailed' = d.mfailed
  /\ insertFailed' = d.ifailed

\* _upload_via_staging (lines 288-349)
upload_via_staging(rows) ==
  \E sfail \in StagingFailPoints :
    /\ staging' = IF sfail \in {"ensure", "load"} THEN staging
                  ELSE staging \o [i \in 1..Len(rows) |->
                                     [row |-> rows[i], batch_id |-> uploads + 1]]
    /\ IF sfail = "none"
       THEN \E merged \in StoredProcedureEffect(table, rows) :
              Record(Done(merged, Returned("success", "staging_sp", Len(rows)),
                          0, 0, 0, FALSE, FALSE),
                     "staging_sp", FALSE)
       ELSE Record(NothingRun(Raised), "staging_sp", FALSE)

\* the direct branch of upload_data (lines 98-103)
upload_direct(data, use_merge) ==
  /\ UNCHANGED staging
  /\ \/ \* _ensure_table_exists raises before any strategy runs
        Record(NothingRun(Raised), "none", FALSE)
     \/ /\ use_merge
        /\ \E merged \in MergeResults(table, ProjectAll(data)), dfail \in BOOLEAN :
             Record(upload_with_merge(table, data, "none", FALSE, merged), "merge", dfail)
     \/ /\ use_merge
        /\ \E mfail \in MergeFailPoints \ {"none"}, ifail \in BOOLEAN, dfail \in BOOLEAN :
             Record(upload_with_merge(table, data, mfail, ifail, table), "merge", dfail)
     \/ /\ ~use_merge
        /\ \E ifail \in BOOLEAN :
             Record(upload_with_insert(table, data, FALSE, ifail), "insert", FALSE)

\* upload_data (lines 42-118)
upload_data(data, use_merge, mode, thr) ==
  /\ uploads' = uploads + 1
  /\ IF Len(data) = 0
     THEN \* lines 68-70
          /\ Record(NothingRun(Returned("no_data", "", 0)), "none", FALSE)
          /\ UNCHANGED staging
     ELSE IF UseStaging(mode, Len(data), thr)
     THEN upload_via_staging(ProjectAll(data))
     ELSE upload_direct(data, use_merge)

MaxUploads == 2

\* items with a record id, of up to two orders, with up to two modification
\* times; the batches transform_data returns for them for sheet 99
UploadItems ==
  {RawRec(Val(1), o, f, Absent, Absent) :
     o \in {Absent, Val(1), Val(2)},
     f \in {Garbage, LocalStr(TaipeiOffsetHours), LocalStr(TaipeiOffsetHours + 1)}}

TransformOutputs ==
  {TransformedList(d, "99", 1) : d \in SeqsUpTo(UploadItems, MaxBatch)}

WarehouseRow(oid, lmd, sheet) ==
  [oid |-> oid, lmd |-> lmd, upd |-> NULL, crt |-> NULL, qty |-> NULL, sheet |-> sheet]

InitialTables ==
  {<<>>,
   <<WarehouseRow(1, TaipeiOffsetHours, "99")>>,
   <<WarehouseRow(1, TaipeiOffsetHours + 1, "99")>>,
   <<WarehouseRow(NULL, TaipeiOffsetHours, "99")>>}

ModeInputs == {"auto", "AUTO", "", "direct", "staging_sp"}

UploaderStart ==
  /\ staging = <<>>
  /\ u_result = NoResult
  /\ selected = "none"
  /\ mergeAttempts = 0
  /\ insertAttempts = 0
  /\ tempCreated = 0
  /\ tempDeletes = 0
  /\ tempLeft = 0
  /\ mergeFailed = FALSE
  /\ insertFailed = FALSE
  /\ uploads = 0
  /\ methods = <<>>
  /\ table1 = <<>>

InitUpload ==
  /\ table \in InitialTables
  /\ u_data \in TransformOutputs
  /\ u_use_merge \in BOOLEAN
  /\ u_mode \in ModeInputs
  /\ u_threshold \in 0..MaxBatch
  /\ UploaderStart

MethodOf(res) == IF res.outcome = "raised" THEN "raised" ELSE res.method

\* one upload_data call with the arguments fixed at the start; the same batch
\* is handed over again by the next call
UploadData ==
  /\ uploads < MaxUploads
  /\ upload_data(u_data, u_use_merge, u_mode, u_threshold)
  /\ methods' = Append(methods, MethodOf(u_result'))
  /\ table1' = IF uploads = 0 THEN table' ELSE table1
  /\ UNCHANGED <<u_data, u_use_merge, u_mode, u_threshold>>

\* ---- claims about the uploader

CountIn(T, r) == Cardinality({j \in 1..Len(T) : T[j] = r})

\* same number of rows and same column values, whatever the row order
SameRows(A, B) ==
  /\ Len(A) = Len(B)
  /\ \A r \in Range(A) \cup Range(B) : CountIn(A, r) = CountIn(B, r)

\* C2: when a batch that transform_data can return is uploaded twice through
\* the merge strategy, the destination holds after the second upload the same
\* number of rows with the same column values as after the first.
C2_MergeIdempotent ==
  (uploads = 2 /\ methods = <<"merge", "merge">>) => SameRows(table, table1)

\* C8: in one upload_data call on the merge path, a failed merge is followed by
\* exactly one append-insert of the batch, reported as insert_fallback when it
\* succeeds and raised to the caller when it fails; neither strategy runs more
\* than once in the call.
C8_SingleFallback ==
  /\ mergeAttempts <= 1
  /\ insertAttempts <= 1
  /\ (selected = "merge" /\ mergeFailed) =>
       /\ mergeAttempts = 1
       /\ insertAttempts = 1
       /\ IF insertFailed
          THEN u_result.outcome = "raised"
          ELSE /\ u_result.outcome = "returned"
               /\ u_result.method = "insert_fallback"
               /\ u_result.processed = Len(u_data)
  /\ (selected = "merge" /\ ~mergeFailed) =>
       /\ insertAttempts = 0
       /\ u_result.method = "merge"

C8_FallbackFailureRaised ==
  /\ selected = "merge"
  /\ mergeFailed
  /\ insertFailed
  /\ insertAttempts = 1
  /\ u_result.outcome = "raised"

\* C11: in every upload_data call, once _upload_with_merge has created its
\* temporary table a deletion of that table is attempted, whether the load and
\* the MERGE succeeded or one of them failed and the method fell back.
C11_TempTableDeleteAttempted ==
  /\ tempDeletes = tempCreated
  /\ (selected = "merge" /\ tempCreated = 1) => tempDeletes = 1

C11_DeletedAfterFailedMerge ==
  /\ selected = "merge"
  /\ mergeFailed
  /\ tempCreated = 1
  /\ tempDeletes = 1
  /\ insertAttempts = 1

\* modification timestamps the batch carries for business key k
BatchTimesOf(data, k) == {data[i].lmd : i \in {j \in 1..Len(data) : data[j].oid = k}}

NewestOf(data, k) ==
  CHOOSE t \in BatchTimesOf(data, k) : \A u \in BatchTimesOf(data, k) : u <= t

\* C12: after an upload that went through the MERGE, for every business key of
\* the batch the destination row of that key carries the maximum modification
\* timestamp (last_modified_date) the batch holds for the key.
C12_NewestOfBatchApplied ==
  (selected = "merge" /\ ~mergeFailed /\ u_result.method = "merge") =>
    \A k \in BatchKeys(u_data) \ {NULL} :
      \A j \in 1..Len(table) :
        table[j].oid = k => table[j].lmd = NewestOf(u_data, k)

\* C13: an upload_data call that goes through the MERGE leaves, for every
\* business key that was in the destination before the call, a modification
\* timestamp (last_modified_date) not lower than the one the row had.
C13_NoRegression ==
  [][(uploads' = uploads + 1 /\ selected' = "merge" /\ ~mergeFailed') =>
       \A j \in 1..Len(table) :
         table[j].oid # NULL =>
           \A i \in 1..Len(table') :
             table'[i].oid = table[j].oid => table'[i].lmd >= table[j].lmd]_uploadVars

\* the strategy the stated policy names for the last call
ModeIsAuto(m) == m \in {"auto", "AUTO", ""}

StatedStrategy(isAuto) ==
  IF u_mode = "staging_sp" \/ (isAuto /\ Len(u_data) > u_threshold)
  THEN "staging_sp"
  ELSE IF u_use_merge THEN "merge" ELSE "insert"

\* the destination table could not be prepared, so no strategy ran
PreparedNothing(expected) ==
  selected = "none" /\ expected # "staging_sp" /\ u_result.outcome = "raised"

\* C10 as stated: for every batch size n, threshold t, mode and use_merge flag,
\* upload_data dispatches to the staged path for mode staging_sp and for mode
\* auto exactly when n > t, and otherwise to merge when use_merge is set and to
\* append-insert when it is not.
C10_SelectionAsStated ==
  uploads > 0 =>
    \/ selected = StatedStrategy(u_mode = "auto")
    \/ PreparedNothing(StatedStrategy(u_mode = "auto"))

\* C10 amended: the policy holds for every non-empty batch, with the mode read
\* case-insensitively and a missing or empty mode read as auto; an empty batch
\* dispatches to no strategy.
C10_StrategySelection ==
  uploads > 0 =>
    IF Len(u_data) = 0
    THEN selected = "none" /\ u_result.status = "no_data"
    ELSE \/ selected = StatedStrategy(ModeIsAuto(u_mode))
         \/ PreparedNothing(StatedStrategy(ModeIsAuto(u_mode)))

C10_AutoAboveThresholdStaged ==
  /\ uploads > 0
  /\ u_mode = "auto"
  /\ Len(u_data) = u_threshold + 1
  /\ selected = "staging_sp"
  /\ u_result.method = "staging_sp"

\* ===========================================================================
\*  Backup orchestrator (erp_backup_main.py)
\* ===========================================================================
VARIABLES
  config,          \* self.config and the environment switches read by the run
  run,             \* run_backup_all_sheets calls started so far
  r_pc,            \* position in run_backup_all_sheets
  sheet_idx,       \* index into the sheet map of the table being processed
  ls,              \* last sync time used for the table being processed
  details,         \* details list of the run
  total_uploaded,  \* total_uploaded of the run
  r_result,        \* result returned by the run
  raised_at,       \* history: tables of this run whose processing raised
  r1max,           \* history: per sheet, greatest last_modified_date that the
                   \* first run uploaded
  phases           \* history: the phases of this run, as they started and ended

runVars == <<config, run, r_pc, sheet_idx, ls, details, total_uploaded,
             r_result, raised_at, r1max, phases>>

MaxRuns == 2
MaxRunRecords == 2

\* default of upload_data's batch_threshold parameter
DefaultBatchThreshold == 5000

\* datetime.now() - timedelta(weeks=1), the origin of the model's hour scale
WeekAgo == 0

\* the first and the last table of the default map of _get_sheet_map, in its
\* declared order
SheetOrder == <<"10", "99">>

NumSheets == Len(SheetOrder)

SetMax(S) == CHOOSE x \in S : \A y \in S : y <= x

\* COALESCE(last_modified_date, updated_at, created_at)
Coalesce(row) ==
  IF row.lmd # NULL THEN row.lmd
  ELSE IF row.upd # NULL THEN row.upd ELSE row.crt

SheetTimes(T, sc) ==
  {Coalesce(T[j]) : j \in {k \in 1..Len(T) : T[k].sheet = sc /\ Coalesce(T[k]) # NULL}}

AllTimes(T) ==
  {Coalesce(T[j]) : j \in {k \in 1..Len(T) : Coalesce(T[k]) # NULL}}

\* BigQueryUploader.get_last_sync_timestamp: the clock reading of the greatest
\* stored timestamp; a week ago for an empty table or a failed query
get_last_sync_timestamp(T, qfail) ==
  IF qfail \/ AllTimes(T) = {} THEN WeekAgo ELSE SetMax(AllTimes(T))

\* get_last_sync_timestamp_by_sheet: the greatest stored timestamp of the sheet
\* plus eight hours; a week ago plus eight hours when the sheet has no rows; a
\* week ago when the query raises
get_last_sync_timestamp_by_sheet(T, sc, qfail) ==
  IF qfail THEN WeekAgo
  ELSE IF SheetTimes(T, sc) = {} THEN WeekAgo + TaipeiOffsetHours
  ELSE SetMax(SheetTimes(T, sc)) + TaipeiOffsetHours

\* records the source serves during a run: two records of one order, modified
\* more than eight hours apart, and a value that is not a record
RunRecords ==
  {RawRec(Val(1), Val(1), LocalStr(TaipeiOffsetHours), Absent, Absent),
   RawRec(Val(1), Val(1), LocalStr(2 * TaipeiOffsetHours + 1), Absent, Absent),
   NonDict}

\* what the source serves for a sheet: records of RunRecords in a fixed order,
\* at most MaxRunRecords of them
Ascending(q) ==
  \A i \in 1..Len(q) : \A j \in 1..Len(q) :
    (i < j /\ q[i].kind = "dict" /\ q[j].kind = "dict") => q[i].f1.v < q[j].f1.v

RunSources ==
  {q \in SeqsUpTo(RunRecords, MaxRunRecords) :
     /\ Ascending(q)
     /\ \A i \in 1..Len(q) : q[i].kind = "dict" \/ Len(q) = 1}

Configs ==
  [use_merge : BOOLEAN, upload_mode : {"auto"},
   page_size : {1, MaxRunRecords + 1}, max_pages : {0, MaxPagesBound},
   use_where : BOOLEAN]

NoRunResult == [status |-> "none", records_processed |-> 0]

RunStartState ==
  /\ run = 0
  /\ r_pc = "idle"
  /\ sheet_idx = 1
  /\ ls = WeekAgo
  /\ details = <<>>
  /\ total_uploaded = 0
  /\ r_result = NoRunResult
  /\ raised_at = {}
  /\ r1max = [sc \in Range(SheetOrder) |-> NULL]
  /\ phases = <<>>

InitRun ==
  /\ config \in Configs
  /\ RunStartState

\* lines 766-816: a failed connection test ends the run with status error
run_start ==
  /\ run' = run + 1
  /\ sheet_idx' = 1
  /\ details' = <<>>
  /\ total_uploaded' = 0
  /\ raised_at' = {}
  /\ phases' = <<>>
  /\ \E connected \in BOOLEAN :
       IF connected
       THEN r_pc' = "sheet" /\ r_result' = NoRunResult
       ELSE r_pc' = "finished" /\ r_result' = [status |-> "error", records_processed |-> 0]
  /\ UNCHANGED <<config, ls, r1max>>

\* the first run_backup_all_sheets call
RunStart ==
  /\ r_pc = "idle"
  /\ run_start

\* a further run_backup_all_sheets call, once the previous one has returned
RunAgain ==
  /\ r_pc = "finished"
  /\ run < MaxRuns
  /\ run_start

PhaseEvent(idx, phase, ev) == [sheet |-> idx, phase |-> phase, ev |-> ev]

\* the state in which a fetch call starts
FetchReset ==
  /\ fpc' = "loop"
  /\ pages' = 0
  /\ offset' = 0
  /\ collected' = <<>>
  /\ consec' = 0
  /\ retry' = 0
  /\ retval' = "none"
  /\ scanned' = {}
  /\ servedPages' = 0
  /\ failure' = "none"
  /\ requests' = 0

\* lines 819-866: the last sync time of the sheet is derived and the fetch is
\* called: fetch_data with max_pages=1 under USE_RAGIC_WHERE, else
\* fetch_ragic_data_for_sheet, which parses the string with strptime
SheetBegin ==
  /\ r_pc = "sheet"
  /\ \E qfail \in BOOLEAN, src \in RunSources :
       /\ ls' = get_last_sync_timestamp_by_sheet(table, SheetOrder[sheet_idx], qfail)
       /\ source' = src
  /\ since_dt' = NaiveDt(ls')
  /\ until_dt' = NoneDt
  /\ fmode' = IF config.use_where THEN "where" ELSE "local"
  /\ limit' = config.page_size
  /\ max_pages' = IF config.use_where THEN 1 ELSE config.max_pages
  /\ threshold' = DefaultNoNewDataPagesThreshold
  /\ max_retries' = MaxRetriesBound
  /\ FetchReset
  /\ r_pc' = "fetching"
  /\ phases' = Append(phases, PhaseEvent(sheet_idx, "fetch", "start"))
  /\ UNCHANGED <<config, run, sheet_idx, details, total_uploaded, r_result,
                 raised_at, r1max>>

\* the upload called with the records before they are transformed
PhaseEvents_upload_first(idx, transform_called, upload_called) ==
  <<PhaseEvent(idx, "fetch", "end")>>
  \o (IF upload_called
      THEN <<PhaseEvent(idx, "upload", "start"), PhaseEvent(idx, "upload", "end")>>
      ELSE <<>>)
  \o (IF transform_called
      THEN <<PhaseEvent(idx, "transform", "start"), PhaseEvent(idx, "transform", "end")>>
      ELSE <<>>)

\* lines 868-900 in statement order: the fetch call has ended; transform_data
\* is called when records came back, and upload_data when transform_data
\* returned records; each call returns or raises before the next statement
PhaseEvents(idx, transform_called, upload_called) ==
  <<PhaseEvent(idx, "fetch", "end")>>
  \o (IF transform_called
      THEN <<PhaseEvent(idx, "transform", "start"), PhaseEvent(idx, "transform", "end")>>
      ELSE <<>>)
  \o (IF upload_called
      THEN <<PhaseEvent(idx, "upload", "start"), PhaseEvent(idx, "upload", "end")>>
      ELSE <<>>)

DetailsEntry(sc, uploaded, invalid, fetched, skipped, error) ==
  [sheet_code |-> sc, uploaded |-> uploaded, invalid |-> invalid,
   fetched |-> fetched, skipped |-> skipped, error |-> error]

\* the end of one pass of `for sheet_code, sheet_id in sheets.items()`, and
\* lines 914-927 after the last pass
ContinueLoop(total) ==
  /\ total_uploaded' = total
  /\ IF sheet_idx = NumSheets
     THEN /\ r_pc' = "finished"
          /\ r_result' = [status |-> IF total > 0 THEN "success" ELSE "no_data",
                          records_processed |-> total]
          /\ UNCHANGED sheet_idx
     ELSE /\ r_pc' = "sheet"
          /\ sheet_idx' = sheet_idx + 1
          /\ UNCHANGED r_result

\* an exception that leaves the loop and reaches the outer handler
sheet_failed_aborts(sc, text) ==
  /\ UNCHANGED <<details, total_uploaded, sheet_idx>>
  /\ r_pc' = "finished"
  /\ r_result' = [status |-> "error", records_processed |-> 0]

\* lines 902-912: except Exception inside the loop
sheet_failed(sc, text) ==
  /\ details' = Append(details, DetailsEntry(sc, 0, 0, 0, FALSE, text))
  /\ ContinueLoop(total_uploaded)

\* lines 868-881: nothing fetched
sheet_skipped(sc) ==
  /\ details' = Append(details, DetailsEntry(sc, 0, 0, 0, TRUE, ""))
  /\ ContinueLoop(total_uploaded)

\* lines 892-901
sheet_done(sc, uploaded, invalid, fetched) ==
  /\ details' = Append(details, DetailsEntry(sc, uploaded, invalid, fetched, FALSE, ""))
  /\ ContinueLoop(total_uploaded + uploaded)

FetchErrorText ==
  IF failure = "none" THEN "TypeError" ELSE failure

TimesOf(data) == {data[i].lmd : i \in {k \in 1..Len(data) : data[k].lmd # NULL}}

Later(a, b) == IF a >= b THEN a ELSE b

\* lines 868-912, once the fetch call has ended
SheetEnd ==
  /\ r_pc = "fetching"
  /\ fpc \in {"returned", "raised"}
  /\ LET sc == SheetOrder[sheet_idx]
         records == IF retval = "list"
                    THEN [i \in 1..Len(collected) |-> source[collected[i]]]
                    ELSE <<>>
         transformed == TransformedList(records, sc, 1)
         invalid == Len(InvalidEntries(records, 1))
     IN IF retval = "exception"
        THEN /\ sheet_failed(sc, FetchErrorText)
             /\ raised_at' = raised_at \cup {sheet_idx}
             /\ phases' = phases \o PhaseEvents(sheet_idx, FALSE, FALSE)
             /\ UNCHANGED <<uploadVars, r1max>>
        ELSE IF Len(records) = 0
        THEN \* an empty list, or the None of fetch_data
             /\ sheet_skipped(sc)
             /\ phases' = phases \o PhaseEvents(sheet_idx, FALSE, FALSE)
             /\ UNCHANGED <<uploadVars, r1max, raised_at>>
        ELSE IF TransformRaises(records)
        THEN /\ sheet_failed(sc, "AttributeError")
             /\ phases' = phases \o PhaseEvents(sheet_idx, TRUE, FALSE)
             /\ raised_at' = raised_at \cup {sheet_idx}
             /\ UNCHANGED <<uploadVars, r1max>>
        ELSE IF Len(transformed) = 0
        THEN /\ sheet_done(sc, 0, invalid, Len(records))
             /\ phases' = phases \o PhaseEvents(sheet_idx, TRUE, FALSE)
             /\ UNCHANGED <<uploadVars, r1max, raised_at>>
        ELSE /\ upload_data(transformed, config.use_merge, config.upload_mode,
                            DefaultBatchThreshold)
             /\ u_data' = transformed
             /\ u_use_merge' = config.use_merge
             /\ u_mode' = config.upload_mode
             /\ u_threshold' = DefaultBatchThreshold
             /\ UNCHANGED <<methods, table1>>
             /\ phases' = phases \o PhaseEvents(sheet_idx, TRUE, TRUE)
             /\ IF u_result'.outcome = "raised"
                THEN /\ sheet_failed(sc, "upload failed")
                     /\ raised_at' = raised_at \cup {sheet_idx}
                     /\ UNCHANGED r1max
                ELSE /\ sheet_done(sc, u_result'.processed, invalid, Len(records))
                     /\ UNCHANGED raised_at
                     /\ r1max' = IF run = 1 /\ TimesOf(transformed) # {}
                                 THEN [r1max EXCEPT ![sc] = Later(@, SetMax(TimesOf(transformed)))]
                                 ELSE r1max
  /\ UNCHANGED <<config, run, ls>>

\* ---- claims about the multi-table run

\* C3: the last sync time derived for a table at the start of the second of two
\* consecutive runs is not earlier than the greatest modification timestamp of
\* the records that the first run uploaded for that table.
C3_WatermarkCoversPreviousRun ==
  (run = 2 /\ r_pc = "fetching" /\ sheet_idx = 1 /\ r1max[SheetOrder[1]] # NULL)
    => ls >= r1max[SheetOrder[1]]

\* C18: in a multi-table run, the local-filtered fetch of a sheet gets from the
\* orchestrator a watermark on the UTC scale of the parsed record times (an
\* aware value), and the scan never ends with the error of an undefined
\* comparison (in fetch_since_local_paged a request failure returns; only the
\* comparison of lines 234-238 can raise).
C18_ComparisonDefined ==
  (r_pc = "fetching" /\ fmode = "local" /\ scanned # {}) =>
    (since_dt.aware /\ fpc # "raised")

\* C7: an exception raised while one table is fetched, transformed or uploaded
\* is recorded with its text in that table's details entry, the entries follow
\* the declared order of the sheet map, and the run goes on to every later
\* table and ends with an entry for each.
C7_TableFailureIsolated ==
  /\ \A i \in 1..Len(details) : details[i].sheet_code = SheetOrder[i]
  /\ \A i \in raised_at :
       /\ i <= Len(details)
       /\ details[i].error # ""
       /\ details[i].uploaded = 0
  /\ (r_pc \in {"sheet", "fetching"}) => Len(details) = sheet_idx - 1
  /\ (r_pc = "finished" /\ raised_at # {}) =>
       /\ Len(details) = NumSheets
       /\ r_result.status \in {"success", "no_data"}

C7_LaterTableUploaded ==
  /\ r_pc = "finished"
  /\ 1 \in raised_at
  /\ Len(details) = NumSheets
  /\ details[1].error # ""
  /\ details[NumSheets].error = ""
  /\ details[NumSheets].uploaded > 0

\* _parse_dt reads a zoneless string as Taipei time; the transformer stores
\* the same string unshifted (data_transformer.py 639-679), so the instant of
\* a stored value lies TaipeiOffsetHours before its clock reading
StoredInstant(t) == t - TaipeiOffsetHours

\* C27: while a sheet with stored rows is fetched with the local filter, the
\* watermark, as it is compared with the UTC times of the records, is not
\* later than the instant of the newest stored record of the sheet; the scan
\* does not fail, and it retains every scanned record that was modified after
\* that instant.
C27_WatermarkNotLaterThanNewest ==
  LET stored == SheetTimes(table, SheetOrder[sheet_idx])
  IN (r_pc = "fetching" /\ fmode = "local" /\ stored # {}) =>
       /\ since_dt.v <= StoredInstant(SetMax(stored))
       /\ fpc # "raised"
       /\ (fpc = "returned") =>
            \A i \in scanned :
              (RecDt(source[i]).ok /\ RecDt(source[i]).v > StoredInstant(SetMax(stored)))
                => \E j \in 1..Len(collected) : collected[j] = i

PhaseRank(phase) ==
  CASE phase = "fetch" -> 1 [] phase = "transform" -> 2 [] phase = "upload" -> 3

\* positions of the phase starts in the history
Starts == {k \in 1..Len(phases) : phases[k].ev = "start"}

\* C23: the phases of a run never overlap and run in order: a phase that
\* started ends before any other phase starts; within one table fetch comes
\* before transform and transform before upload, a transform follows a fetch
\* and an upload follows a transform of the same table; and every phase of a
\* table comes after the last phase of every table before it in the sheet map.
C23_PhasesSequential ==
  /\ \A k \in Starts :
       k < Len(phases) =>
         /\ phases[k + 1].ev = "end"
         /\ phases[k + 1].sheet = phases[k].sheet
         /\ phases[k + 1].phase = phases[k].phase
  /\ \A k \in 1..Len(phases) :
       phases[k].ev = "end" => (k > 1 /\ phases[k - 1].ev = "start")
  /\ \A k \in Starts : \A l \in Starts :
       k < l =>
         \/ phases[k].sheet < phases[l].sheet
         \/ /\ phases[k].sheet = phases[l].sheet
            /\ PhaseRank(phases[k].phase) < PhaseRank(phases[l].phase)
  /\ \A l \in Starts :
       PhaseRank(phases[l].phase) > 1 =>
         \E k \in Starts :
           /\ k < l
           /\ phases[k].sheet = phases[l].sheet
           /\ PhaseRank(phases[k].phase) = PhaseRank(phases[l].phase) - 1

\* a finished run in which every table went through its three phases
C23_AllPhasesOfEveryTable ==
  /\ r_pc = "finished"
  /\ Len(phases) = 6 * NumSheets
  /\ \A i \in 1..NumSheets : details[i].uploaded > 0

\* main, lines 1035-1044: the process exit code for a result
exit_code(result) ==
  IF result.status \in {"success", "no_data", "no_valid_data"} THEN 0 ELSE 1

\* backup_erp_data, lines 1148-1169: the HTTP status for a result
http_status(result) ==
  IF result.status \in {"success", "no_data", "no_valid_data"} THEN 200 ELSE 500

\* what the caller of a run sees
ReportOf(result) ==
  [status |-> result.status, exit |-> exit_code(result), http |-> http_status(result)]

\* the reports of the runs in which no table failed: something uploaded, or
\* nothing to upload
CleanReports ==
  {ReportOf([status |-> st, records_processed |-> 0]) : st \in {"success", "no_data"}}

\* C22: a finished multi-table run in which at least one table failed is
\* reported (status, exit code, HTTP status) differently from every run without
\* a failure, with or without something uploaded, and it carries an entry for
\* every table.
C22_PartialFailureDistinguished ==
  (r_pc = "finished" /\ raised_at # {}) =>
    /\ ReportOf(r_result) \notin CleanReports
    /\ Len(details) = NumSheets

\* ---- the upload step of the single-table run (run_backup, lines 587-640)
VARIABLES
  b_data,          \* transformed_data
  b_size,          \* upload_batch_size
  b_pc,            \* position: "start", "batch", "done"
  b_i,             \* loop variable i of batch_upload_data
  b_results,       \* results list of batch_upload_data
  b_result,        \* result returned by run_backup
  b_written,       \* history: records written to the destination
  b_fatal,         \* history: an append-insert of the upload failed
  run_results      \* rows of the run-result log erp_backup.run_results

singleVars == <<b_data, b_size, b_pc, b_i, b_results, b_result, b_written, b_fatal,
                run_results>>

SingleStartState ==
  /\ b_pc = "start"
  /\ b_i = 0
  /\ b_results = <<>>
  /\ b_result = NoRunResult
  /\ b_written = 0
  /\ b_fatal = FALSE
  /\ run_results = <<>>

InitSingle ==
  /\ b_data \in TransformOutputs \ {<<>>}
  /\ b_size \in 1..MaxBatch
  /\ config \in Configs
  /\ table \in InitialTables
  /\ SingleStartState

\* _write_run_result, lines 458-481: one row is inserted; an insert that reports
\* errors or raises is logged and the log is left as it was
write_run_result(rows, sc, result, inserted) ==
  IF inserted
  THEN Append(rows, [sheet_code |-> sc, status |-> result.status,
                     uploaded |-> result.records_processed])
  ELSE rows

\* run_backup, lines 600-637: the row is written when the sheet code is set in
\* the configuration or found in the sheet map by the sheet id
RunBackupRecord(result) ==
  \E known \in BOOLEAN, inserted \in BOOLEAN :
    run_results' = IF known
                   THEN write_run_result(run_results, SheetOrder[1], result, inserted)
                   ELSE run_results

UploadArgs(data, use_merge, mode) ==
  /\ u_data' = data
  /\ u_use_merge' = use_merge
  /\ u_mode' = mode
  /\ u_threshold' = DefaultBatchThreshold
  /\ UNCHANGED <<methods, table1>>

\* upload_to_bigquery, lines 438-452, and run_backup, lines 587-657: one
\* upload_data call with the configured arguments
RunBackupUpload ==
  /\ b_pc = "start"
  /\ Len(b_data) <= b_size
  /\ upload_data(b_data, config.use_merge, config.upload_mode, DefaultBatchThreshold)
  /\ UploadArgs(b_data, config.use_merge, config.upload_mode)
  /\ IF u_result'.outcome = "raised"
     THEN \* lines 642-669: the handler returns the error result
          /\ b_result' = [status |-> "error", records_processed |-> 0]
          /\ b_fatal' = insertFailed'
          /\ UNCHANGED <<b_written, run_results>>
     ELSE /\ b_result' = [status |-> "success", records_processed |-> u_result'.processed]
          /\ b_written' = Len(b_data)
          /\ RunBackupRecord(b_result')
          /\ UNCHANGED b_fatal
  /\ b_pc' = "done"
  /\ UNCHANGED <<b_data, b_size, b_i, b_results, config>>

\* batch_upload_data, lines 684-704: one pass of the loop; upload_data is called
\* with its default arguments and an exception becomes an error entry
BatchUploadChunk ==
  /\ b_pc \in {"start", "batch"}
  /\ Len(b_data) > b_size
  /\ b_i < Len(b_data)
  /\ LET batch_data == SubSeq(b_data, b_i + 1, Min(b_i + b_size, Len(b_data)))
     IN /\ upload_data(batch_data, TRUE, "auto", DefaultBatchThreshold)
        /\ UploadArgs(batch_data, TRUE, "auto")
        /\ IF u_result'.outcome = "raised"
           THEN /\ b_results' = Append(b_results, [status |-> "error", records_processed |-> 0])
                /\ b_fatal' = (b_fatal \/ insertFailed')
                /\ UNCHANGED b_written
           ELSE /\ b_results' = Append(b_results, [status |-> u_result'.status,
                                                   records_processed |-> u_result'.processed])
                /\ b_written' = b_written + Len(batch_data)
                /\ UNCHANGED b_fatal
  /\ b_i' = b_i + b_size
  /\ b_pc' = "batch"
  /\ UNCHANGED <<b_data, b_size, b_result, config, run_results>>

\* upload_to_bigquery, lines 425-436: the summary has no records_processed key;
\* run_backup, lines 620-640: status success, and the count falls back to
\* len(transformed_data)
RunBackupBatchResult ==
  /\ b_pc = "batch"
  /\ b_i >= Len(b_data)
  /\ b_result' = [status |-> "success", records_processed |-> Len(b_data)]
  /\ RunBackupRecord(b_result')
  /\ b_pc' = "done"
  /\ UNCHANGED <<b_data, b_size, b_i, b_results, b_written, b_fatal, config, uploadVars>>

\* C21: every run appends exactly one row to the run-result log for each table
\* it processed, whatever the table's outcome: a finished multi-table run has
\* one row per details entry, and a finished single-table run has one row.
C21_OneRunResultPerTable ==
  /\ (r_pc = "finished") => Len(run_results) = Len(details)
  /\ (b_pc = "done") => Len(run_results) = 1

\* the strategy upload_data selects for the whole of transformed_data with the
\* configured use_merge and upload_mode and the batch_threshold of the run
ConfiguredStrategy ==
  IF UseStaging(config.upload_mode, Len(b_data), DefaultBatchThreshold)
  THEN "staging_sp"
  ELSE IF config.use_merge THEN "merge" ELSE "insert"

\* C29: every upload_data call that upload_to_bigquery makes, directly or
\* through batch_upload_data, dispatches to the strategy that upload_data
\* selects for the records of the run with the configured use_merge,
\* upload_mode and batch_threshold (or to none, when the destination table
\* cannot be prepared).
C29_ConfiguredStrategyApplied ==
  (b_pc \in {"batch", "done"} /\ uploads > 0) =>
    \/ selected = ConfiguredStrategy
    \/ selected = "none" /\ u_result.outcome = "raised"

\* C9: a warehouse write that fails fatally during the upload makes run_backup
\* report a status other than success and an uploaded count that leaves out the
\* records that were not written, whatever the batch size.
C9_WriteFailureReported ==
  (b_pc = "done" /\ b_fatal) =>
    /\ b_result.status # "success"
    /\ b_result.records_processed <= b_written

\* ===========================================================================
\*  Two concurrent runs uploading to one destination table
\*  (BigQueryUploader._upload_with_merge / _upload_with_insert, one instance
\*  per run; every client call is one step, the MERGE statement is one atomic
\*  DML job)
\* ===========================================================================
VARIABLES
  c_batch,   \* per run: the data argument
  c_pc,      \* per run: position in _upload_with_merge / _upload_with_insert
  c_temp     \* per run: rows of its __tmp_merge_<uuid> table (it exists
             \* while the run is at "load" or "merge_query")

concVars == <<c_batch, c_pc, c_temp>>

uploadCallVars == <<staging, u_data, u_use_merge, u_mode, u_threshold, u_result,
                    selected, mergeAttempts, insertAttempts, tempCreated,
                    tempDeletes, tempLeft, mergeFailed, insertFailed, uploads,
                    methods, table1>>

ConcRuns == {"A", "B"}

\* batches transform_data returns for records that all carry an order number
ConcBatches ==
  {TransformedList(d, "99", 1) :
     d \in SeqsUpTo({RawRec(Val(1), Val(o), LocalStr(TaipeiOffsetHours + t), Absent, Absent) :
                       o \in 1..2, t \in 0..1}, MaxBatch)} \ {<<>>}

ConcStart ==
  /\ c_pc = [p \in ConcRuns |-> "merge"]
  /\ c_temp = [p \in ConcRuns |-> <<>>]

InitConc ==
  /\ c_batch \in [ConcRuns -> ConcBatches]
  /\ ConcStart

ConcGoto(p, pc) == c_pc' = [c_pc EXCEPT ![p] = pc]

\* line 405: client.create_table(temp_table); a raise is caught at line 456
CreateTemp(p) ==
  /\ c_pc[p] = "merge"
  /\ \/ ConcGoto(p, "load") /\ c_temp' = [c_temp EXCEPT ![p] = <<>>]
     \/ ConcGoto(p, "fallback") /\ UNCHANGED c_temp
  /\ UNCHANGED <<table, c_batch>>

\* lines 409-413: the load job into the temporary table; on a failure the
\* finally-clause deletes the table and the except-clause falls back
LoadTemp(p) ==
  /\ c_pc[p] = "load"
  /\ \/ /\ ConcGoto(p, "merge_query")
        /\ c_temp' = [c_temp EXCEPT ![p] = ProjectAll(c_batch[p])]
     \/ /\ ConcGoto(p, "fallback")
        /\ c_temp' = [c_temp EXCEPT ![p] = <<>>]
  /\ UNCHANGED <<table, c_batch>>

\* lines 416-447: the MERGE job, then the finally-clause
MergeQuery(p) ==
  /\ c_pc[p] = "merge_query"
  /\ \/ /\ table' \in MergeResults(table, c_temp[p])
        /\ ConcGoto(p, "returned")
     \/ /\ UNCHANGED table
        /\ ConcGoto(p, "fallback")
  /\ c_temp' = [c_temp EXCEPT ![p] = <<>>]
  /\ UNCHANGED c_batch

\* lines 456-460 and 462-512: _upload_with_insert(..., is_fallback=True)
FallbackInsert(p) ==
  /\ c_pc[p] = "fallback"
  /\ \/ /\ table' = AppendRows(table, ProjectAll(c_batch[p]))
        /\ ConcGoto(p, "returned")
     \/ /\ UNCHANGED table
        /\ ConcGoto(p, "raised")
  /\ UNCHANGED <<c_batch, c_temp>>

RowsOfKey(T, k) == {j \in 1..Len(T) : T[j].oid = k}

\* C14: when both concurrent runs have left the upload, the destination holds
\* at most one row per business key (order_id).
C14_OneRowPerKey ==
  (\A p \in ConcRuns : c_pc[p] \in {"returned", "raised"}) =>
    \A k \in 1..2 : Cardinality(RowsOfKey(table, k)) <= 1

\* ===========================================================================
\*  Field-name resolution (config_field_mapping.py and the lookup of
\*  DataTransformer._transform_single_record)
\*  Localized names are written by their meaning:
\*    "n_last_modified" 最後修改日期, "n_order_no" 訂單編號 (both in
\*    FIELD_MAPPING_CORE), "n_logistics_no" 物流訂單編號 (sales summary only),
\*    "n_customer" 客戶名稱 (sheet 60 only), "n_new" a name in no table,
\*    "n_odd" a name in no table for which lazy_pinyin raises
\* ===========================================================================
VARIABLES
  m_sheet,               \* DataTransformer.sheet_code
  m_mapper,              \* dynamic_mapper: "none", or its store "reachable"/"unreachable"
  m_store,               \* enabled rows of the field_mappings table for the sheet
  drop_unmapped,         \* DataTransformer.drop_unmapped
  m_name,                \* localized key of the last lookup
  m_english,             \* english_key after the last lookup
  m_outcome,             \* "none", "kept", "dropped" or "raised"
  unknown_fields_count,  \* DataTransformer.unknown_fields_count
  m_logged,              \* rows written by log_unknown_field
  m_creation             \* history: "not_tried", or how DynamicFieldMapper(...) ended

resolveVars == <<m_sheet, m_mapper, m_store, drop_unmapped, m_name, m_english,
                 m_outcome, unknown_fields_count, m_logged, m_creation>>

MaxLookups == 2

\* Python None as a field name
NoneName == "<None>"

ResolveNames ==
  {"n_last_modified", "n_order_no", "n_logistics_no", "n_customer", "n_new", "n_odd"}

ResolveSheets == {"60", "99", "00"}

FIELD_MAPPING_CORE ==
  [n \in {"n_last_modified", "n_order_no"} |->
     IF n = "n_last_modified" THEN "last_modified_date" ELSE "order_id"]

\* dict.update / {**a, ...}: the entries of b override those of a
Updated(a, b) ==
  [n \in DOMAIN a \cup DOMAIN b |-> IF n \in DOMAIN b THEN b[n] ELSE a[n]]

FIELD_MAPPING_BY_SHEET ==
  [sc \in {"60", "99"} |->
     IF sc = "60"
     THEN Updated(FIELD_MAPPING_CORE, [n \in {"n_customer"} |-> "customer_name"])
     ELSE Updated(FIELD_MAPPING_CORE, [n \in {"n_logistics_no"} |-> "logistics_order_id"])]

EmptyMap == [n \in {} |-> ""]

\* contents the override table can have for a sheet
StoreContents ==
  {EmptyMap,
   [n \in {"n_new"} |-> "note"],
   [n \in {"n_order_no"} |-> "order_no_override"]}

\* DynamicFieldMapper.load_dynamic_mappings: the rows, or {} when the query
\* raises
load_dynamic_mappings(mapper, store) ==
  IF mapper = "reachable" THEN store ELSE EmptyMap

\* a merge in which the static layer serves only when no mapper is given
get_field_mapping_dynamic_only(sc, mapper, store) ==
  IF mapper # "none"
  THEN load_dynamic_mappings(mapper, store)
  ELSE IF sc \in DOMAIN FIELD_MAPPING_BY_SHEET
       THEN FIELD_MAPPING_BY_SHEET[sc] ELSE FIELD_MAPPING_CORE

get_field_mapping(sc, mapper, store) ==
  LET mappings == IF sc \in DOMAIN FIELD_MAPPING_BY_SHEET
                  THEN FIELD_MAPPING_BY_SHEET[sc] ELSE FIELD_MAPPING_CORE
  IN IF mapper # "none"
     THEN Updated(mappings, load_dynamic_mappings(mapper, store))
     ELSE mappings

PinyinRaises(n) == n = "n_odd"

\* a transliteration without the hash fallback
auto_convert_pinyin_only(n) ==
  IF PinyinRaises(n) THEN NoneName ELSE "auto_" \o n

\* auto_convert_field_name(chinese_field, strategy="pinyin")
auto_convert_field_name(n) ==
  IF PinyinRaises(n) THEN "unknown_" \o n ELSE "auto_" \o n

\* translate_field: (english_field, is_unknown)
translate_field(n, mappings) ==
  IF n \in DOMAIN mappings
  THEN [english |-> mappings[n], is_unknown |-> FALSE]
  ELSE [english |-> auto_convert_field_name(n), is_unknown |-> TRUE]

ResolveStart ==
  /\ m_name = ""
  /\ m_english = ""
  /\ m_outcome = "none"
  /\ unknown_fields_count = 0
  /\ m_logged = 0

\* how the constructor of DynamicFieldMapper can end: bigquery.Client raises,
\* or the client is built and its queries go through or fail
CreationOutcomes == {"raised", "reachable", "unreachable"}

\* DataTransformer.__init__, lines 321-329: self.dynamic_mapper; None stands
\* when the dynamic layer is off and when the constructor raised
dynamic_mapper_init(use_dynamic_mapping, creation) ==
  IF use_dynamic_mapping /\ creation # "raised" THEN creation ELSE "none"

InitResolve ==
  /\ m_sheet \in ResolveSheets
  /\ \E use_dynamic_mapping \in BOOLEAN, creation \in CreationOutcomes :
       /\ m_creation = IF use_dynamic_mapping THEN creation ELSE "not_tried"
       /\ m_mapper = dynamic_mapper_init(use_dynamic_mapping, creation)
  /\ m_store \in StoreContents
  /\ drop_unmapped \in BOOLEAN
  /\ ResolveStart

\* self.field_mapping, set in __init__ (lines 331-337)
field_mapping == get_field_mapping(m_sheet, m_mapper, m_store)

\* lines 457-487 of _transform_single_record for one key of the record
Lookup ==
  /\ unknown_fields_count < MaxLookups
  /\ \E n \in ResolveNames :
       /\ m_name' = n
       /\ IF n \in DOMAIN field_mapping
          THEN /\ m_english' = field_mapping[n]
               /\ m_outcome' = "kept"
               /\ UNCHANGED <<unknown_fields_count, m_logged>>
          ELSE IF m_mapper # "none"
          THEN LET r == translate_field(n, field_mapping)
               IN /\ m_english' = r.english
                  \* log_unknown_field: one row when the statement goes
                  \* through; a failure is logged and swallowed
                  /\ m_logged' = m_logged + (IF m_mapper = "reachable" THEN 1 ELSE 0)
                  /\ unknown_fields_count' = unknown_fields_count + 1
                  /\ m_outcome' = IF drop_unmapped THEN "dropped" ELSE "kept"
          ELSE /\ unknown_fields_count' = unknown_fields_count + 1
               /\ UNCHANGED m_logged
               /\ IF drop_unmapped
                  THEN m_outcome' = "dropped" /\ UNCHANGED m_english
                  ELSE m_outcome' = "kept" /\ m_english' = n
  /\ UNCHANGED <<m_sheet, m_mapper, m_store, drop_unmapped, m_creation>>

IsName(e) == e # NoneName /\ e # ""

\* get_field_mapping and translate_field give a name for every localized name
TranslateTotal ==
  \A n \in ResolveNames : IsName(translate_field(n, field_mapping).english)

StaticMap(sc) ==
  IF sc \in DOMAIN FIELD_MAPPING_BY_SHEET
  THEN FIELD_MAPPING_BY_SHEET[sc] ELSE FIELD_MAPPING_CORE

DynamicLayerDown == m_creation = "raised" \/ m_mapper = "unreachable"

\* C25: when creating the DynamicFieldMapper raised or its store cannot be
\* queried, the transformer is built with a field mapping, no lookup raises,
\* and every name of the sheet's static map has its static canonical name, in
\* the mapping and in the lookup of a record's field.
C25_StaticMapAvailable ==
  DynamicLayerDown =>
    /\ \A n \in DOMAIN StaticMap(m_sheet) :
         /\ n \in DOMAIN field_mapping
         /\ field_mapping[n] = StaticMap(m_sheet)[n]
         /\ translate_field(n, field_mapping).english = StaticMap(m_sheet)[n]
    /\ m_outcome # "raised"
    /\ (m_outcome # "none" /\ m_name \in DOMAIN StaticMap(m_sheet)) =>
         /\ m_outcome = "kept"
         /\ m_english = StaticMap(m_sheet)[m_name]

\* a statically mapped field looked up while the store holds an override for
\* it that cannot be read
C25_StaticNameWithStoreDown ==
  /\ m_mapper = "unreachable"
  /\ m_store = [n \in {"n_order_no"} |-> "order_no_override"]
  /\ m_name = "n_order_no"
  /\ m_outcome = "kept"
  /\ m_english = "order_id"

\* ===========================================================================
\*  Specifications
\* ===========================================================================
vars == <<fetchVars, xformVars, uploadVars, runVars, singleVars, concVars, resolveVars>>

FetchIdle ==
  /\ fmode = "local"
  /\ source = <<>>
  /\ since_dt = NaiveDt(0)
  /\ until_dt = NoneDt
  /\ limit = 1
  /\ max_pages = 1
  /\ threshold = DefaultNoNewDataPagesThreshold
  /\ max_retries = 0
  /\ FetchStart

TransformIdle ==
  /\ sheet_code = "99"
  /\ TransformerInit

UploadIdle ==
  /\ table = <<>>
  /\ u_data = <<>>
  /\ u_use_merge = TRUE
  /\ u_mode = "auto"
  /\ u_threshold = 0
  /\ UploaderStart

ConfigIdle == config = [use_merge |-> TRUE, upload_mode |-> "auto",
                        page_size |-> 1, max_pages |-> 0, use_where |-> FALSE]

RunIdle == RunStartState

ResolveIdle ==
  /\ m_sheet = "99"
  /\ m_mapper = "none"
  /\ m_store = EmptyMap
  /\ drop_unmapped = FALSE
  /\ m_creation = "not_tried"
  /\ ResolveStart

SingleIdle ==
  /\ b_data = <<>>
  /\ b_size = 1
  /\ SingleStartState

ConcIdle ==
  /\ c_batch = [p \in ConcRuns |-> <<>>]
  /\ ConcStart

\* the source client alone: one call of fetch_since_local_paged or fetch_data
InitFetch ==
  (InitLocal \/ InitWhere) /\ TransformIdle /\ UploadIdle /\ ConfigIdle /\ RunIdle /\ SingleIdle /\ ConcIdle
  /\ ResolveIdle

NextFetch ==
  \/ LocalPage /\ UNCHANGED <<xformVars, uploadVars, runVars, singleVars, concVars, resolveVars>>
  \/ LocalCeiling /\ UNCHANGED <<xformVars, uploadVars, runVars, singleVars, concVars, resolveVars>>
  \/ WhereCeiling /\ UNCHANGED <<xformVars, uploadVars, runVars, singleVars, concVars, resolveVars>>
  \/ WhereAttempt /\ UNCHANGED <<xformVars, uploadVars, runVars, singleVars, concVars, resolveVars>>

SpecFetch == InitFetch /\ [][NextFetch]_vars

\* the transformer alone: successive transform_data calls on one instance
InitXform == InitTransform /\ FetchIdle /\ UploadIdle /\ ConfigIdle /\ RunIdle /\ SingleIdle /\ ConcIdle
  /\ ResolveIdle

NextXform == TransformData /\ UNCHANGED <<fetchVars, uploadVars, runVars, singleVars, concVars, resolveVars>>

SpecTransform == InitXform /\ [][NextXform]_vars

\* the uploader alone: the same batch handed to upload_data repeatedly
InitUp == InitUpload /\ FetchIdle /\ TransformIdle /\ ConfigIdle /\ RunIdle /\ SingleIdle /\ ConcIdle
  /\ ResolveIdle

NextUp == UploadData /\ UNCHANGED <<fetchVars, xformVars, runVars, singleVars, concVars, resolveVars>>

SpecUpload == InitUp /\ [][NextUp]_vars

\* one multi-table run
InitAll ==
  /\ InitRun
  /\ table = <<>>
  /\ u_data = <<>>
  /\ u_use_merge = TRUE
  /\ u_mode = "auto"
  /\ u_threshold = 0
  /\ UploaderStart
  /\ FetchIdle
  /\ TransformIdle
  /\ SingleIdle
  /\ ConcIdle
  /\ ResolveIdle

Fetching == r_pc = "fetching"

NextAll ==
  \/ RunStart /\ UNCHANGED <<fetchVars, xformVars, uploadVars, singleVars, concVars, resolveVars>>
  \/ SheetBegin /\ UNCHANGED <<xformVars, uploadVars, singleVars, concVars, resolveVars>>
  \/ Fetching /\ LocalPage /\ UNCHANGED <<xformVars, uploadVars, runVars, singleVars, concVars, resolveVars>>
  \/ Fetching /\ LocalCeiling /\ UNCHANGED <<xformVars, uploadVars, runVars, singleVars, concVars, resolveVars>>
  \/ Fetching /\ WhereCeiling /\ UNCHANGED <<xformVars, uploadVars, runVars, singleVars, concVars, resolveVars>>
  \/ Fetching /\ WhereAttempt /\ UNCHANGED <<xformVars, uploadVars, runVars, singleVars, concVars, resolveVars>>
  \/ SheetEnd /\ UNCHANGED <<fetchVars, xformVars, singleVars, concVars, resolveVars>>

SpecRun == InitAll /\ [][NextAll]_vars

\* consecutive multi-table runs against one destination table
NextRuns ==
  \/ NextAll
  \/ RunAgain /\ UNCHANGED <<fetchVars, xformVars, uploadVars, singleVars, concVars, resolveVars>>

SpecRuns == InitAll /\ [][NextRuns]_vars

\* the upload step of the single-table run
InitStep ==
  /\ InitSingle
  /\ u_data = <<>>
  /\ u_use_merge = TRUE
  /\ u_mode = "auto"
  /\ u_threshold = 0
  /\ UploaderStart
  /\ FetchIdle
  /\ TransformIdle
  /\ run = 0
  /\ r_pc = "idle"
  /\ sheet_idx = 1
  /\ ls = WeekAgo
  /\ details = <<>>
  /\ total_uploaded = 0
  /\ r_result = NoRunResult
  /\ raised_at = {}
  /\ r1max = [sc \in Range(SheetOrder) |-> NULL]
  /\ phases = <<>>
  /\ ConcIdle
  /\ ResolveIdle

RunIdleVars == <<run, r_pc, sheet_idx, ls, details, total_uploaded, r_result,
                 raised_at, r1max, phases>>

NextStep ==
  \/ RunBackupUpload /\ UNCHANGED <<fetchVars, xformVars, RunIdleVars, concVars, resolveVars>>
  \/ BatchUploadChunk /\ UNCHANGED <<fetchVars, xformVars, RunIdleVars, concVars, resolveVars>>
  \/ RunBackupBatchResult /\ UNCHANGED <<fetchVars, xformVars, RunIdleVars, concVars, resolveVars>>

SpecSingle == InitStep /\ [][NextStep]_vars

\* two runs whose uploads to one destination table interleave
InitConcurrent ==
  /\ InitConc
  /\ table \in InitialTables
  /\ u_data = <<>>
  /\ u_use_merge = TRUE
  /\ u_mode = "auto"
  /\ u_threshold = 0
  /\ UploaderStart
  /\ FetchIdle
  /\ TransformIdle
  /\ ConfigIdle
  /\ RunIdle
  /\ b_data = <<>>
  /\ b_size = 1
  /\ SingleStartState
  /\ ResolveIdle

concIdleVars == <<fetchVars, xformVars, uploadCallVars, runVars, singleVars,
                  resolveVars>>

NextConcurrent ==
  \/ \E p \in ConcRuns : CreateTemp(p) /\ UNCHANGED concIdleVars
  \/ \E p \in ConcRuns : LoadTemp(p) /\ UNCHANGED concIdleVars
  \/ \E p \in ConcRuns : MergeQuery(p) /\ UNCHANGED concIdleVars
  \/ \E p \in ConcRuns : FallbackInsert(p) /\ UNCHANGED concIdleVars

SpecConcurrent == InitConcurrent /\ [][NextConcurrent]_vars

\* field-name lookups of one transformer
InitNames ==
  /\ InitResolve
  /\ FetchIdle
  /\ TransformIdle
  /\ UploadIdle
  /\ ConfigIdle
  /\ RunIdle
  /\ b_data = <<>>
  /\ b_size = 1
  /\ SingleStartState
  /\ c_batch = [p \in ConcRuns |-> <<>>]
  /\ ConcStart

NextNames ==
  Lookup /\ UNCHANGED <<fetchVars, xformVars, uploadVars, runVars, singleVars, concVars>>

SpecResolve == InitNames /\ [][NextNames]_vars

\* one multi-table run with the local filter against a destination table that
\* holds rows of earlier runs
InitStored ==
  /\ InitRun
  /\ ~config.use_where
  /\ table \in InitialTables
  /\ u_data = <<>>
  /\ u_use_merge = TRUE
  /\ u_mode = "auto"
  /\ u_threshold = 0
  /\ UploaderStart
  /\ FetchIdle
  /\ TransformIdle
  /\ SingleIdle
  /\ ConcIdle
  /\ ResolveIdle

NextStored ==
  \/ RunStart /\ UNCHANGED <<fetchVars, xformVars, uploadVars, singleVars, concVars, resolveVars>>
  \/ SheetBegin /\ UNCHANGED <<xformVars, uploadVars, singleVars, concVars, resolveVars>>
  \/ Fetching /\ LocalPage /\ UNCHANGED <<xformVars, uploadVars, runVars, singleVars, concVars, resolveVars>>
  \/ Fetching /\ LocalCeiling /\ UNCHANGED <<xformVars, uploadVars, runVars, singleVars, concVars, resolveVars>>
  \/ SheetEnd /\ UNCHANGED <<fetchVars, xformVars, singleVars, concVars, resolveVars>>

SpecStored == InitStored /\ [][NextStored]_vars

\* one call of fetch_since_local_paged, which runs to its end: every page
\* request is bounded by the session timeout
InitLocalFetch ==
  InitLocal /\ TransformIdle /\ UploadIdle /\ ConfigIdle /\ RunIdle /\ SingleIdle /\ ConcIdle
  /\ ResolveIdle

NextLocalFetch ==
  \/ LocalPage /\ UNCHANGED <<xformVars, uploadVars, runVars, singleVars, concVars, resolveVars>>
  \/ LocalCeiling /\ UNCHANGED <<xformVars, uploadVars, runVars, singleVars, concVars, resolveVars>>

SpecLocalFetch == InitLocalFetch /\ [][NextLocalFetch]_vars /\ WF_vars(NextLocalFetch)

====
